---------------------------- MODULE Spec2Model ----------------------------
(***************************************************************************)
(* Model of ed25519_parser (src/ed25519_parser/src/lib.rs): parsing of     *)
(* OpenSSL Ed25519 keys in DER / PEM, their conversion to X25519 key       *)
(* material, and the strict export of generated key pairs.                 *)
(*                                                                         *)
(* Buffers are sequences of bytes (0..255), with the lengths, tags and     *)
(* prefixes of lib.rs kept as they are (48- and 44-byte DER blocks,        *)
(* 32-byte keys).  The external collaborators are modelled by what they    *)
(* compute on those bytes:                                                 *)
(*   - der_parser: identifier/length octets, SEQUENCE framing, the         *)
(*     INTEGER / OID / OCTET STRING / BIT STRING readers, eof!;            *)
(*   - pem: the BEGIN/END armor search, base64 in both directions;         *)
(*   - curve25519_dalek / x25519_dalek: clamping, the Montgomery ladder,   *)
(*     Edwards (de)compression and the birational maps, computed in the    *)
(*     field GF(2^7 - 19) on the curve v^2 = u^3 + 25 u^2 + u, which has   *)
(*     the shape of Curve25519 (p = 5 mod 8, cofactor 8, base point u = 9, *)
(*     u = -1 on the twist) at a size TLC can enumerate;                   *)
(*   - sha2::Sha512: a deterministic byte-mixing function (the digest is   *)
(*     used only as "some fixed function of the seed that is not the       *)
(*     seed").                                                             *)
(***************************************************************************)
EXTENDS Integers, Sequences, FiniteSets, TLC

\* ------------------------------------------------------------ bounds
\* seeds the random source may deliver: first byte in 0..MaxSeed
MaxSeed == 11
\* PEM records in a multi-record file
MaxRecords == 2

\* ------------------------------------------------------------ bytes
Byte == 0..255

Zeros(n) == [i \in 1..n |-> 0]

\* s[from..to) with 0-based bounds, as a Rust slice (bounds assumed valid)
Slice(s, from, to) == [i \in 1..(to - from) |-> s[from + i]]

\* ------------------------------------------------------------ field
\* the prime of the field: 2^255 - 19 in curve25519_dalek, scaled down
FieldPrime == 2^7 - 19
\* Montgomery coefficient A (486662 for Curve25519)
MontgomeryA == 20 + 5
\* u-coordinate of the X25519 base point
BasepointU == 3 * 3

FAdd(a, b) == (a + b) % FieldPrime
FSub(a, b) == (a - b + FieldPrime) % FieldPrime
FMul(a, b) == (a * b) % FieldPrime
FNeg(a) == (FieldPrime - a) % FieldPrime

RECURSIVE FPow(_, _)
FPow(a, e) ==
    IF e = 0 THEN 1
    ELSE LET h == FPow(a, e \div 2)
             hh == FMul(h, h)
         IN IF e % 2 = 1 THEN FMul(hh, a) ELSE hh

\* FieldElement::invert: a^(p-2), so invert(0) = 0
FInvert(a) == FPow(a, FieldPrime - 2)

\* FieldElement::from_bytes: little-endian, bit 255 ignored, reduced mod p
FieldElement_from_bytes(b) ==
    LET R[i \in 1..33] ==
            IF i = 33 THEN 0
            ELSE (R[i + 1] * 256 + (IF i = 32 THEN b[i] % 128 ELSE b[i])) % FieldPrime
    IN R[1]

\* FieldElement::to_bytes: the canonical little-endian encoding
FieldElement_to_bytes(v) == [i \in 1..32 |-> IF i = 1 THEN v ELSE 0]

\* FieldElement::is_negative: low bit of the canonical encoding
FIsNegative(v) == v % 2

\* sqrt(-1) = 2^((p-1)/4)
SQRT_M1 == FPow(2, (FieldPrime - 1) \div 4)

\* Edwards d = -((A-2)/4) / ((A+2)/4)   (-121665/121666 for Ed25519)
EDWARDS_D == FNeg(FMul(FSub(MontgomeryA, 2), FInvert(FAdd(MontgomeryA, 2))))

\* (A+2)/4, the ladder constant (121666)
APLUS2_OVER_FOUR == FMul(FAdd(MontgomeryA, 2), FInvert(4))

FSquare(a) == FMul(a, a)
FCube(a) == FMul(FMul(a, a), a)

\* the non-negative one of a and -a
FAbs(a) == IF FIsNegative(a) = 1 THEN FNeg(a) ELSE a

\* FieldElement::sqrt_ratio_i(u, v): [ok, r], r the non-negative root of u/v
\* when u/v is a square.  r0 = u v^3 (u v^7)^((p-5)/8), check = v r0^2.
SqrtRatioPick(u, r0, check) ==
    [ok |-> check = u \/ check = FNeg(u),
     r |-> FAbs(IF check = FNeg(u) \/ check = FMul(FNeg(u), SQRT_M1)
                THEN FMul(SQRT_M1, r0) ELSE r0)]

SqrtRatioCheck(u, v, r0) == SqrtRatioPick(u, r0, FMul(v, FSquare(r0)))

SqrtRatioI(u, v) ==
    SqrtRatioCheck(u, v,
        FMul(FMul(u, FCube(v)),
             FPow(FMul(u, FMul(FSquare(FCube(v)), v)), (FieldPrime - 5) \div 8)))

None == [some |-> FALSE]
Some(v) == [some |-> TRUE, val |-> v]

\* CompressedEdwardsY::decompress: the affine point (x, y) or None;
\* x^2 = (y^2 - 1) / (d y^2 + 1), x negated when the sign bit is set
DecompressRoot(y, sign, sr) ==
    IF sr.ok THEN Some([x |-> IF sign = 1 THEN FNeg(sr.r) ELSE sr.r, y |-> y])
    ELSE None

DecompressY(y, sign) ==
    DecompressRoot(y, sign,
        SqrtRatioI(FSub(FSquare(y), 1), FAdd(FMul(FSquare(y), EDWARDS_D), 1)))

CompressedEdwardsY_decompress(bytes) ==
    DecompressY(FieldElement_from_bytes(bytes), bytes[32] \div 128)

\* EdwardsPoint::compress: y with the sign of x in the top bit
EdwardsPoint_compress(pt) ==
    [i \in 1..32 |-> IF i = 1 THEN pt.y
                     ELSE IF i = 32 THEN 128 * FIsNegative(pt.x)
                     ELSE 0]

\* EdwardsPoint::to_montgomery: u = (1+y)/(1-y)
EdwardsPoint_to_montgomery(pt) ==
    FieldElement_to_bytes(FMul(FAdd(1, pt.y), FInvert(FSub(1, pt.y))))

\* y_bytes[31] ^= sign << 7 on a canonical encoding
WithSign(yb, sign) ==
    [i \in 1..32 |-> IF i = 32 THEN (yb[i] + 128 * sign) % 256 ELSE yb[i]]

\* MontgomeryPoint::to_edwards(sign): y = (u-1)/(u+1), then decompress;
\* None for u = -1 and for u on the twist
ToEdwardsU(u, sign) ==
    IF u = FNeg(1) THEN None
    ELSE CompressedEdwardsY_decompress(
             WithSign(FieldElement_to_bytes(FMul(FSub(u, 1), FInvert(FAdd(u, 1)))), sign))

MontgomeryPoint_to_edwards(ubytes, sign) ==
    ToEdwardsU(FieldElement_from_bytes(ubytes), sign)

\* ------------------------------------------------------------ keys
\* Sha512::digest(m)[0..32]: a stand-in mixing function of all of m
Sha512_32(m) ==
    LET H[i \in 0..Len(m)] ==
            IF i = 0 THEN 7 ELSE (H[i - 1] * 31 + m[i] + i) % 251
    IN [j \in 1..32 |-> (H[Len(m)] * (2 * j + 1) + j * j + 3) % 256]

\* StaticSecret::from: clamping
StaticSecret_from(b) ==
    [i \in 1..32 |-> IF i = 1 THEN b[i] - (b[i] % 8)
                     ELSE IF i = 32 THEN (b[i] % 64) + 64
                     ELSE b[i]]

ScalarBit(k, t) == (k[(t \div 8) + 1] \div (2 ^ (t % 8))) % 2

\* the conditional swap of the ladder
LadderSwap(s, bit) ==
    IF bit = 1 THEN [x2 |-> s.x3, z2 |-> s.z3, x3 |-> s.x2, z3 |-> s.z2] ELSE s

\* differential add-and-double, from aa = (x2+z2)^2, bb = (x2-z2)^2,
\* da = (x3-z3)(x2+z2), cb = (x3+z3)(x2-z2)
LadderOut(u, aa, bb, da, cb) ==
    [x2 |-> FMul(aa, bb),
     z2 |-> FMul(FSub(aa, bb), FAdd(bb, FMul(APLUS2_OVER_FOUR, FSub(aa, bb)))),
     x3 |-> FSquare(FAdd(da, cb)),
     z3 |-> FMul(u, FSquare(FSub(da, cb)))]

LadderMix(u, a, b, c, d) ==
    LadderOut(u, FSquare(a), FSquare(b), FMul(d, a), FMul(c, b))

LadderDiffAdd(t, u) ==
    LadderMix(u, FAdd(t.x2, t.z2), FSub(t.x2, t.z2), FAdd(t.x3, t.z3), FSub(t.x3, t.z3))

\* one step of the Montgomery ladder
LadderStep(s, u, bit) == LadderSwap(LadderDiffAdd(LadderSwap(s, bit), u), bit)

\* the ladder over scalar bits hi-1 down to lo (halved so that each half is
\* a value before the next starts)
RECURSIVE LadderRun(_, _, _, _, _)
LadderRun(s, u, k, hi, lo) ==
    IF hi - lo = 1 THEN LadderStep(s, u, ScalarBit(k, lo))
    ELSE LET upper == LadderRun(s, u, k, hi, (hi + lo) \div 2)
         IN IF upper.x2 \in Nat THEN LadderRun(upper, u, k, (hi + lo) \div 2, lo)
            ELSE upper

LadderResult(r) == FieldElement_to_bytes(FMul(r.x2, FInvert(r.z2)))

\* PublicKey::from(&StaticSecret): scalar * basepoint, as Montgomery u bytes
PublicKey_from_secret(k) ==
    LadderResult(LadderRun([x2 |-> 1, z2 |-> 0, x3 |-> BasepointU, z3 |-> 1],
                           BasepointU, k, 255, 0))

\* ------------------------------------------------------------ results
\* Result<T, ED25519ParserError>; a panic is a third outcome
Ok(v) == [ok |-> TRUE, err |-> "", val |-> v]
Err(e) == [ok |-> FALSE, err |-> e, val |-> <<>>]
Panic == Err("panic")

\* the structural errors (lines 31, 33)
StructuralErrors == {"NomError", "BerError"}

\* ------------------------------------------------------------ der_parser
ED_25519_OID == <<1, 3, 101, 112>>
TAG_OCTETSTRING == 4
DerTag_Sequence == 16
DerTag_Integer == 2
DerTag_Oid == 6
DerTag_BitString == 3

\* der_read_element_header: identifier octet and a definite short length.
\* The high-tag-number form and the long length forms are refused: the
\* buffers here are shorter than 127 bytes, where DER allows neither.
der_read_element_header(i) ==
    IF Len(i) < 2 THEN [ok |-> FALSE]
    ELSE IF i[1] % 32 = 31 \/ i[2] >= 128 THEN [ok |-> FALSE]
    ELSE [ok |-> TRUE,
          structured |-> (i[1] \div 32) % 2,
          tag |-> i[1] % 32,
          len |-> i[2],
          rest |-> Slice(i, 2, Len(i))]

Fail == [ok |-> FALSE]

\* the framing of parse_der_struct!(i, TAG DerTag::Sequence, ...): the header
\* is verified, flat_take! cuts the content off and hands back the remainder
\* [ok, content, rem]
FrameOf(hdr) ==
    IF ~hdr.ok THEN Fail
    ELSE IF ~(hdr.structured = 1 /\ hdr.tag = DerTag_Sequence) THEN Fail
    ELSE IF Len(hdr.rest) < hdr.len THEN Fail
    ELSE [ok |-> TRUE,
          content |-> Slice(hdr.rest, 0, hdr.len),
          rem |-> Slice(hdr.rest, hdr.len, Len(hdr.rest))]

parse_der_struct_frame(i) == FrameOf(der_read_element_header(i))

\* parse_der_with_tag for a primitive: [ok, content, rem]
PrimitiveOf(hdr, tag) ==
    IF ~hdr.ok THEN Fail
    ELSE IF hdr.tag # tag \/ hdr.structured = 1 THEN Fail
    ELSE IF Len(hdr.rest) < hdr.len THEN Fail
    ELSE [ok |-> TRUE,
          content |-> Slice(hdr.rest, 0, hdr.len),
          rem |-> Slice(hdr.rest, hdr.len, Len(hdr.rest))]

parse_der_primitive(i, tag) == PrimitiveOf(der_read_element_header(i), tag)

\* der_read_oid: first octet is 40*X + Y, then base-128 arcs; an unfinished
\* arc is an error.  OidArcs is the decoder's state after each octet.
OidArcs(c) ==
    LET R[j \in 1..Len(c)] ==
            IF j = 1 THEN [acc |-> 0, arcs |-> <<c[1] \div 40, c[1] % 40>>]
            ELSE IF c[j] < 128
                 THEN [acc |-> 0,
                       arcs |-> Append(R[j - 1].arcs, R[j - 1].acc * 128 + c[j])]
                 ELSE [acc |-> R[j - 1].acc * 128 + (c[j] % 128),
                       arcs |-> R[j - 1].arcs]
    IN R[Len(c)]

OidOfArcs(last) == IF last.acc # 0 THEN Fail ELSE [ok |-> TRUE, arcs |-> last.arcs]

der_read_oid(c) == IF Len(c) = 0 THEN Fail ELSE OidOfArcs(OidArcs(c))

\* parse_der_integer
IntegerOf(p) ==
    IF ~p.ok THEN Fail
    ELSE [ok |-> TRUE, obj |-> [kind |-> "integer", bytes |-> p.content], rem |-> p.rem]

parse_der_integer(i) == IntegerOf(parse_der_primitive(i, DerTag_Integer))

\* parse_der_oid
OidObject(p, o) ==
    IF ~o.ok THEN Fail
    ELSE [ok |-> TRUE, obj |-> [kind |-> "oid", arcs |-> o.arcs], rem |-> p.rem]

OidOf(p) == IF ~p.ok THEN Fail ELSE OidObject(p, der_read_oid(p.content))

parse_der_oid(i) == OidOf(parse_der_primitive(i, DerTag_Oid))

\* parse_der_octetstring
OctetStringOf(p) ==
    IF ~p.ok THEN Fail
    ELSE [ok |-> TRUE, obj |-> [kind |-> "octetstring", bytes |-> p.content], rem |-> p.rem]

parse_der_octetstring(i) == OctetStringOf(parse_der_primitive(i, TAG_OCTETSTRING))

\* parse_der_bitstring: the first content octet counts the unused bits (at
\* most 7, and those bits zero); the object holds the octets after it
BitStringOf(p) ==
    IF ~p.ok THEN Fail
    ELSE IF Len(p.content) = 0 THEN Fail
    ELSE IF p.content[1] > 7 THEN Fail
    ELSE IF Len(p.content) > 1 /\ p.content[Len(p.content)] % (2 ^ p.content[1]) # 0
         THEN Fail
    ELSE [ok |-> TRUE,
          obj |-> [kind |-> "bitstring", bytes |-> Slice(p.content, 1, Len(p.content))],
          rem |-> p.rem]

parse_der_bitstring(i) == BitStringOf(parse_der_primitive(i, DerTag_BitString))

\* eof!()
eof(i) == Len(i) = 0

\* DerObject::as_oid / BerObjectContent::as_slice
as_oid(obj) == IF obj.kind = "oid" THEN Ok(obj.arcs) ELSE Err("BerError")
as_slice(obj) ==
    IF obj.kind \in {"octetstring", "bitstring", "integer"} THEN Ok(obj.bytes)
    ELSE Err("BerError")

\* ------------------------------------------------------------ private key
\* parse_ed25519_private_header: Seq(OID) with nothing after the OID
PrivateHeaderTag(f, tag) ==
    IF ~tag.ok THEN Fail
    ELSE IF ~eof(tag.rem) THEN Fail
    ELSE [ok |-> TRUE, tag |-> tag.obj, rem |-> f.rem]

PrivateHeaderFrame(f) ==
    IF ~f.ok THEN Fail ELSE PrivateHeaderTag(f, parse_der_oid(f.content))

parse_ed25519_private_header(i) == PrivateHeaderFrame(parse_der_struct_frame(i))

\* parse_ed25519_private: Seq(Int, Seq(OID), OctetString) with nothing after
\* the OCTET STRING inside the SEQUENCE; rem is what follows the SEQUENCE
PrivateData(f, header, data) ==
    IF ~data.ok THEN Fail
    ELSE IF ~eof(data.rem) THEN Fail
    ELSE [ok |-> TRUE, header |-> [tag |-> header.tag], data |-> data.obj, rem |-> f.rem]

PrivateHeader(f, header) ==
    IF ~header.ok THEN Fail
    ELSE PrivateData(f, header, parse_der_octetstring(header.rem))

PrivateInt(f, unk) ==
    IF ~unk.ok THEN Fail
    ELSE PrivateHeader(f, parse_ed25519_private_header(unk.rem))

PrivateFrame(f) ==
    IF ~f.ok THEN Fail ELSE PrivateInt(f, parse_der_integer(f.content))

parse_ed25519_private(i) == PrivateFrame(parse_der_struct_frame(i))

\* a Rust index data[i]: the byte, or a panic when out of bounds
Index(data, i) ==
    IF i < Len(data) THEN [panic |-> FALSE, v |-> data[i + 1]]
    ELSE [panic |-> TRUE, v |-> 0]

\* line 129: data.len() != 34 || data[0] != TAG_OCTETSTRING || data[1] != 32,
\* evaluated left to right: "bad", "good" or "panic"
PrivPayloadCheck_IndexFirst(data) ==
    IF Index(data, 0).panic THEN "panic"
    ELSE IF Index(data, 0).v # TAG_OCTETSTRING THEN "bad"
    ELSE IF Index(data, 1).panic THEN "panic"
    ELSE IF Index(data, 1).v # 32 THEN "bad"
    ELSE IF Len(data) # 34 THEN "bad"
    ELSE "good"

PrivPayloadCheck_NoInnerLen(data) ==
    IF Len(data) # 34 THEN "bad"
    ELSE IF Index(data, 0).panic THEN "panic"
    ELSE IF Index(data, 0).v # TAG_OCTETSTRING THEN "bad"
    ELSE "good"

PrivPayloadCheck(data) ==
    IF Len(data) # 34 THEN "bad"
    ELSE IF Index(data, 0).panic THEN "panic"
    ELSE IF Index(data, 0).v # TAG_OCTETSTRING THEN "bad"
    ELSE IF Index(data, 1).panic THEN "panic"
    ELSE IF Index(data, 1).v # 32 THEN "bad"
    ELSE "good"

\* lines 132-134: the secret is the clamped first half of Sha512(data[2..34])
PrivKeyMaterial_NoHash(data) ==
    IF Len(data) < 34 THEN Panic
    ELSE Ok(StaticSecret_from(Slice(data, 2, 34)))

PrivKeyMaterial(data) ==
    IF Len(data) < 34 THEN Panic
    ELSE Ok(StaticSecret_from(Sha512_32(Slice(data, 2, 34))))

\* lines 129-134, once the payload is at hand
PrivkeyChecked(data, chk) ==
    IF chk = "panic" THEN Panic
    ELSE IF chk = "bad" THEN Err("InvalidData")
    ELSE PrivKeyMaterial(data)

\* line 126
PrivkeyFromPayload(sl) ==
    IF ~sl.ok THEN sl ELSE PrivkeyChecked(sl.val, PrivPayloadCheck(sl.val))

\* lines 123-125 with the OID looked at only after the payload
PrivkeyCheckOid_PayloadFirst(p, oid) ==
    IF ~oid.ok THEN oid
    ELSE IF ~PrivkeyFromPayload(as_slice(p.data)).ok
         THEN PrivkeyFromPayload(as_slice(p.data))
    ELSE IF oid.val # ED_25519_OID THEN Err("UnknownOid")
    ELSE PrivkeyFromPayload(as_slice(p.data))

\* lines 123-125
PrivkeyCheckOid(p, oid) ==
    IF ~oid.ok THEN oid
    ELSE IF oid.val # ED_25519_OID THEN Err("UnknownOid")
    ELSE PrivkeyFromPayload(as_slice(p.data))

\* line 122
PrivkeyFromStruct(p) ==
    IF ~p.ok THEN Err("NomError") ELSE PrivkeyCheckOid(p, as_oid(p.header.tag))

\* parse_openssl_ed25519_privkey_der
parse_openssl_ed25519_privkey_der(data) ==
    PrivkeyFromStruct(parse_ed25519_private(data))

\* ------------------------------------------------------------ public key
\* parse_ed25519_public_header
PublicHeaderTag(f, tag) ==
    IF ~tag.ok THEN Fail
    ELSE IF ~eof(tag.rem) THEN Fail
    ELSE [ok |-> TRUE, tag |-> tag.obj, rem |-> f.rem]

PublicHeaderFrame(f) ==
    IF ~f.ok THEN Fail ELSE PublicHeaderTag(f, parse_der_oid(f.content))

parse_ed25519_public_header(i) == PublicHeaderFrame(parse_der_struct_frame(i))

\* parse_ed25519_public: Seq(Seq(OID), BitString) with nothing after the
\* BIT STRING inside the SEQUENCE
PublicData(f, header, data) ==
    IF ~data.ok THEN Fail
    ELSE IF ~eof(data.rem) THEN Fail
    ELSE [ok |-> TRUE, header |-> [tag |-> header.tag], data |-> data.obj, rem |-> f.rem]

PublicHeader(f, header) ==
    IF ~header.ok THEN Fail
    ELSE PublicData(f, header, parse_der_bitstring(header.rem))

PublicFrame(f) ==
    IF ~f.ok THEN Fail ELSE PublicHeader(f, parse_ed25519_public_header(f.content))

parse_ed25519_public(i) == PublicFrame(parse_der_struct_frame(i))

\* lines 205-209: decompress data[..32] and convert to Montgomery form
PubKeyOfPoint(edwards_val) ==
    IF edwards_val.some THEN Ok(EdwardsPoint_to_montgomery(edwards_val.val))
    ELSE Err("InvalidData")

PubKeyMaterial(data) ==
    IF Len(data) < 32 THEN Panic
    ELSE PubKeyOfPoint(CompressedEdwardsY_decompress(Slice(data, 0, 32)))

\* lines 201-204
PubkeyFromPayload(sl) ==
    IF ~sl.ok THEN sl
    ELSE IF Len(sl.val) # 32 THEN Err("InvalidData")
    ELSE PubKeyMaterial(sl.val)

\* lines 198-200
PubkeyCheckOid(p, oid) ==
    IF ~oid.ok THEN oid
    ELSE IF oid.val # ED_25519_OID THEN Err("UnknownOid")
    ELSE PubkeyFromPayload(as_slice(p.data))

\* line 197
PubkeyFromStruct(p) ==
    IF ~p.ok THEN Err("NomError") ELSE PubkeyCheckOid(p, as_oid(p.header.tag))

\* parse_openssl_ed25519_pubkey_der
parse_openssl_ed25519_pubkey_der(data) ==
    PubkeyFromStruct(parse_ed25519_public(data))

\* ------------------------------------------------------------ pem
\* ASCII: '-' 45, ' ' 32, CR 13, LF 10, '=' 61
DASHES == <<45, 45, 45, 45, 45>>
BEGIN_MARK == DASHES \o <<66, 69, 71, 73, 78, 32>>
END_MARK == DASHES \o <<69, 78, 68, 32>>
CRLF == <<13, 10>>
Whitespace == {9, 10, 11, 12, 13, 32}

\* b"PUBLIC KEY" and b"PRIVATE KEY"
PUBLIC_TAG == <<80, 85, 66, 76, 73, 67, 32, 75, 69, 89>>
PRIVATE_TAG == <<80, 82, 73, 86, 65, 84, 69, 32, 75, 69, 89>>
PUB_KEY_TAG == PUBLIC_TAG
PRIV_KEY_TAG == PRIVATE_TAG

\* the base64 alphabet A-Z a-z 0-9 + /
B64Char(v) ==
    IF v < 26 THEN 65 + v
    ELSE IF v < 52 THEN 97 + (v - 26)
    ELSE IF v < 62 THEN 48 + (v - 52)
    ELSE IF v = 62 THEN 43 ELSE 47

\* the value of a base64 character, -1 for any other byte
B64Val(c) ==
    IF c >= 65 /\ c <= 90 THEN c - 65
    ELSE IF c >= 97 /\ c <= 122 THEN c - 97 + 26
    ELSE IF c >= 48 /\ c <= 57 THEN c - 48 + 52
    ELSE IF c = 43 THEN 62
    ELSE IF c = 47 THEN 63
    ELSE -1

\* base64::encode, standard alphabet with padding
base64_encode(c) ==
    LET n == Len(c)
        at(k) == IF k <= n THEN c[k] ELSE 0
    IN [k \in 1..(4 * ((n + 2) \div 3)) |->
            LET g == (k - 1) \div 4
                pos == (k - 1) % 4
                b0 == at(3 * g + 1)
                b1 == at(3 * g + 2)
                b2 == at(3 * g + 3)
            IN IF pos = 0 THEN B64Char(b0 \div 4)
               ELSE IF pos = 1 THEN B64Char((b0 % 4) * 16 + (b1 \div 16))
               ELSE IF pos = 2 THEN (IF 3 * g + 2 > n THEN 61
                                     ELSE B64Char((b1 % 16) * 4 + (b2 \div 64)))
               ELSE (IF 3 * g + 3 > n THEN 61 ELSE B64Char(b2 % 64))]

\* base64::decode: [ok, bytes]
base64_decode(d) ==
    LET n == Len(d)
        pad == IF n >= 2 /\ d[n] = 61 /\ d[n - 1] = 61 THEN 2
               ELSE IF n >= 1 /\ d[n] = 61 THEN 1 ELSE 0
        val(k) == IF k > n - pad THEN 0 ELSE B64Val(d[k])
    IN IF n % 4 # 0 THEN [ok |-> FALSE]
       ELSE IF \E k \in 1..(n - pad) : B64Val(d[k]) < 0 THEN [ok |-> FALSE]
       ELSE [ok |-> TRUE,
             bytes |-> [j \in 1..(3 * (n \div 4) - pad) |->
                LET g == (j - 1) \div 3
                    pos == (j - 1) % 3
                    v0 == val(4 * g + 1)
                    v1 == val(4 * g + 2)
                    v2 == val(4 * g + 3)
                    v3 == val(4 * g + 4)
                IN IF pos = 0 THEN v0 * 4 + (v1 \div 16)
                   ELSE IF pos = 1 THEN (v1 % 16) * 16 + (v2 \div 4)
                   ELSE (v2 % 4) * 64 + v3]]

\* the lines of 64 characters pem::encode writes, each ended by CRLF
WrapLines(t) ==
    LET n == Len(t)
        nlines == (n + 63) \div 64
    IN [k \in 1..(n + 2 * nlines) |->
            LET line == (k - 1) \div 66
                col == (k - 1) % 66
                lineLen == IF line = nlines - 1 THEN n - 64 * line ELSE 64
            IN IF col < lineLen THEN t[64 * line + col + 1]
               ELSE IF col = lineLen THEN 13 ELSE 10]

\* pem::encode(&Pem { tag, contents })
pem_encode(tag, contents) ==
    BEGIN_MARK \o tag \o DASHES \o CRLF
        \o WrapLines(base64_encode(contents))
        \o END_MARK \o tag \o DASHES \o CRLF

\* does pat occur in s at (1-based) position i
OccursAt(s, pat, i) ==
    /\ i >= 1
    /\ i + Len(pat) - 1 <= Len(s)
    /\ \A j \in 1..Len(pat) : s[i + j - 1] = pat[j]

\* the least element of a set of positions, 0 for the empty set
FirstOf(hits) ==
    IF hits = {} THEN 0 ELSE CHOOSE i \in hits : \A j \in hits : i <= j

\* the first position >= from where pat occurs in s, 0 when there is none
FirstIndex(s, pat, from) ==
    FirstOf({i \in from..(Len(s) - Len(pat) + 1) : OccursAt(s, pat, i)})

\* the first position >= from that holds no whitespace (Len(s)+1 at the end)
FirstOrEnd(s, stop) == IF stop = 0 THEN Len(s) + 1 ELSE stop

SkipWhitespace(s, from) ==
    FirstOrEnd(s, FirstOf({i \in from..Len(s) : s[i] \notin Whitespace}))

\* the leftmost match, at or after from, of the armor
\*   -----BEGIN (begin)-----\s*(data)-----END (end)-----\s*
\* with lazy groups: [found, begin, data, end, next].  p, q, r, e are where
\* "-----BEGIN ", the dashes closing it, "-----END " and its dashes start;
\* d0 is where the data starts.
NoMatch == [found |-> FALSE]

ArmorGroups(s, p, q, r, e, d0) ==
    [found |-> TRUE,
     begin |-> Slice(s, p + Len(BEGIN_MARK) - 1, q - 1),
     data |-> IF d0 >= r THEN <<>> ELSE Slice(s, d0 - 1, r - 1),
     end |-> Slice(s, r + Len(END_MARK) - 1, e - 1),
     next |-> SkipWhitespace(s, e + Len(DASHES))]

ArmorEnd(s, p, q, r, e) ==
    IF e = 0 THEN NoMatch
    ELSE ArmorGroups(s, p, q, r, e, SkipWhitespace(s, q + Len(DASHES)))

ArmorData(s, p, q, r) ==
    IF r = 0 THEN NoMatch
    ELSE ArmorEnd(s, p, q, r, FirstIndex(s, DASHES, r + Len(END_MARK)))

ArmorBegin(s, p, q) ==
    IF q = 0 THEN NoMatch
    ELSE ArmorData(s, p, q, FirstIndex(s, END_MARK, q + Len(DASHES)))

ArmorStart(s, p) ==
    IF p = 0 THEN NoMatch
    ELSE ArmorBegin(s, p, FirstIndex(s, DASHES, p + Len(BEGIN_MARK)))

ArmorMatch(s, from) == ArmorStart(s, FirstIndex(s, BEGIN_MARK, from))

\* Pem::new_from_captures: both tags present and equal, the data base64
\* once its line ends are removed: [ok, tag, contents]
NotLineEnd(c) == c \notin {13, 10}

PemOfData(m, dec) ==
    IF ~dec.ok THEN Fail
    ELSE [ok |-> TRUE, tag |-> m.begin, contents |-> dec.bytes]

new_from_captures(m) ==
    IF Len(m.begin) = 0 THEN Fail
    ELSE IF Len(m.end) = 0 THEN Fail
    ELSE IF m.begin # m.end THEN Fail
    ELSE PemOfData(m, base64_decode(SelectSeq(m.data, NotLineEnd)))

\* pem::parse: the first armor found anywhere in the input
PemOfMatch(m) == IF ~m.found THEN Fail ELSE new_from_captures(m)

pem_parse(data) == PemOfMatch(ArmorMatch(data, 1))

\* pem::parse_many: every armor in turn, those that do not decode left out
RECURSIVE pem_parse_many_from(_, _)

ManyOfRecord(data, m, rec) ==
    IF rec.ok
    THEN <<[tag |-> rec.tag, contents |-> rec.contents]>>
             \o pem_parse_many_from(data, m.next)
    ELSE pem_parse_many_from(data, m.next)

ManyOfMatch(data, m) ==
    IF ~m.found THEN <<>> ELSE ManyOfRecord(data, m, new_from_captures(m))

pem_parse_many_from(data, from) == ManyOfMatch(data, ArmorMatch(data, from))

pem_parse_many(data) == pem_parse_many_from(data, 1)

\* ------------------------------------------------------------ PEM or DER
\* lines 219-228 with a wrong tag falling through to the contents
PubkeyOfPem_TagIgnored(data, pem_data) ==
    IF pem_data.ok THEN parse_openssl_ed25519_pubkey_der(pem_data.contents)
    ELSE parse_openssl_ed25519_pubkey_der(data)

\* lines 219-228 without the DER fallback
PubkeyOfPem_NoFallback(data, pem_data) ==
    IF pem_data.ok
    THEN IF pem_data.tag # PUBLIC_TAG THEN Err("InvalidPEMTag")
         ELSE parse_openssl_ed25519_pubkey_der(pem_data.contents)
    ELSE Err("InvalidPEMTag")

\* lines 219-228
PubkeyOfPem(data, pem_data) ==
    IF pem_data.ok
    THEN IF pem_data.tag # PUBLIC_TAG THEN Err("InvalidPEMTag")
         ELSE parse_openssl_ed25519_pubkey_der(pem_data.contents)
    ELSE parse_openssl_ed25519_pubkey_der(data)

\* parse_openssl_ed25519_pubkey
parse_openssl_ed25519_pubkey(data) == PubkeyOfPem(data, pem_parse(data))

\* lines 233-242
PrivkeyOfPem(data, pem_data) ==
    IF pem_data.ok
    THEN IF pem_data.tag # PRIVATE_TAG THEN Err("InvalidPEMTag")
         ELSE parse_openssl_ed25519_privkey_der(pem_data.contents)
    ELSE parse_openssl_ed25519_privkey_der(data)

\* parse_openssl_ed25519_privkey
parse_openssl_ed25519_privkey(data) == PrivkeyOfPem(data, pem_parse(data))

\* the loop of parse_openssl_ed25519_pubkeys_pem_many over records n.., with
\* output the keys pushed so far
RECURSIVE pem_many_loop(_, _, _)

\* line 254: push the key or return its error
pem_many_push(recs, n, output, k) ==
    IF ~k.ok THEN k ELSE pem_many_loop(recs, n + 1, Append(output, k.val))

\* lines 251-254 with a record of another tag passed over
pem_many_step_SkipWrongTag(recs, n, output) ==
    IF recs[n].tag # PUBLIC_TAG THEN pem_many_loop(recs, n + 1, output)
    ELSE pem_many_push(recs, n, output,
                       parse_openssl_ed25519_pubkey_der(recs[n].contents))

\* lines 251-254
pem_many_step(recs, n, output) ==
    IF recs[n].tag # PUBLIC_TAG THEN Err("InvalidPEMTag")
    ELSE pem_many_push(recs, n, output,
                       parse_openssl_ed25519_pubkey_der(recs[n].contents))

pem_many_loop(recs, n, output) ==
    IF n > Len(recs) THEN Ok(output) ELSE pem_many_step(recs, n, output)

\* parse_openssl_ed25519_pubkeys_pem_many
parse_openssl_ed25519_pubkeys_pem_many(data) ==
    pem_many_loop(pem_parse_many(data), 1, <<>>)

\* ------------------------------------------------------------ export
\* b"\x30\x2e\x02\x01\x00\x30\x05\x06\x03\x2b\x65\x70\x04\x22\x04\x20"
PRIV_KEY_PREFIX == <<48, 46, 2, 1, 0, 48, 5, 6, 3, 43, 101, 112, 4, 34, 4, 32>>
\* b"\x30\x2a\x30\x05\x06\x03\x2b\x65\x70\x03\x21\x00"
PUB_KEY_PREFIX == <<48, 42, 48, 5, 6, 3, 43, 101, 112, 3, 33, 0>>

\* KeyPair::public_as_pem / KeyPair::private_as_pem
public_as_pem(kp) == pem_encode(PUB_KEY_TAG, kp.public_der)
private_as_pem(kp) == pem_encode(PRIV_KEY_TAG, kp.private_der)

\* lines 324-335 writing the hashed seed instead of the seed
KeyPairOf_ExportsHash(private, public) ==
    Some([public_der |-> PUB_KEY_PREFIX \o public,
          private_der |-> PRIV_KEY_PREFIX \o Sha512_32(private)])

\* lines 324-335: the prefixes followed by the public point and the seed
KeyPairOf(private, public) ==
    Some([public_der |-> PUB_KEY_PREFIX \o public,
          private_der |-> PRIV_KEY_PREFIX \o private])

\* lines 314-322
KeyPairOfEdwards(private, edwards) ==
    IF ~edwards.some THEN None
    ELSE KeyPairOf(private, EdwardsPoint_compress(edwards.val))

\* lines 302-307: the secret derived as the parser derives it
DerivedPublic(private) ==
    PublicKey_from_secret(StaticSecret_from(Sha512_32(private)))

\* generate_keypair, with private the 32 bytes csprng.fill_bytes delivered
generate_keypair(private) ==
    KeyPairOfEdwards(private, MontgomeryPoint_to_edwards(DerivedPublic(private), 0))

\* ------------------------------------------------------------ inputs
\* The byte strings handed to the parsers are written down by an encoder
\* of their own, from a description g of what they hold.

\* the 32 bytes the random source delivers for draw a
SeedBytes(a) == [i \in 1..32 |-> IF i = 1 THEN a ELSE i]

\* 32 bytes that spell an (empty) PEM armor with tag "X"
ArmorBytes == BEGIN_MARK \o <<88>> \o DASHES \o END_MARK \o <<88>> \o DASHES

\* a compressed Edwards y with its sign bit
PointBytes(y, sign) ==
    [i \in 1..32 |-> IF i = 1 THEN y ELSE IF i = 32 THEN 128 * sign ELSE 0]

OidNames == {"ed25519", "x25519", "rsa"}
OidBytes(name) ==
    IF name = "ed25519" THEN <<43, 101, 112>>
    ELSE IF name = "x25519" THEN <<43, 101, 110>>
    ELSE <<42, 134, 72, 134, 247, 13, 1, 1, 1>>

TLV(tag, content) == <<tag, Len(content)>> \o content

\* the content of the private OCTET STRING
PrivPayload(g) ==
    IF g.pl = "seed" THEN <<4, 32>> \o SeedBytes(g.a)
    ELSE IF g.pl = "armor" THEN <<4, 32>> \o ArmorBytes
    ELSE IF g.pl = "innertag" THEN <<5, 32>> \o SeedBytes(g.a)
    ELSE IF g.pl = "innerlen" THEN <<4, 31>> \o SeedBytes(g.a)
    ELSE SubSeq(<<4, 32>> \o SeedBytes(0) \o <<0, 0>>, 1, g.a)

\* the data of the public BIT STRING (after the unused-bits octet)
PubPayload(g) ==
    IF g.pl = "point" THEN PointBytes(g.a, g.b)
    ELSE IF g.pl = "armor" THEN ArmorBytes
    ELSE SubSeq(PointBytes(0, 0) \o <<0, 0>>, 1, g.a)

PrivDefects ==
    {"none", "trailing", "outer_extra", "inner_extra", "outer_tag",
     "outer_primitive", "int_tag", "int_flip", "oid_tag", "oid_unfinished",
     "payload_tag", "no_payload", "truncated", "short_outer_len", "empty"}
PubDefects == (PrivDefects \ {"int_tag"}) \cup {"unused_bits"}

\* the defects after which bytes follow a structure that is otherwise whole
FollowingBytes == {"trailing", "outer_extra", "inner_extra"}

DerBytes(g) ==
    LET d == g.defect
        oidContent == IF d = "oid_unfinished" THEN <<43, 101, 240>> ELSE OidBytes(g.oid)
        oidTlv == TLV(IF d = "oid_tag" THEN 4 ELSE 6, oidContent)
        innerSeq == TLV(48, oidTlv \o (IF d = "inner_extra" THEN <<5, 0>> ELSE <<>>))
        version == TLV(IF d = "int_tag" THEN 4 ELSE 2, <<0>>)
        intPart == IF (g.kind = "priv") = (d # "int_flip") THEN version ELSE <<>>
        payload ==
            IF g.kind = "priv"
            THEN TLV(IF d = "payload_tag" THEN 3 ELSE 4, PrivPayload(g))
            ELSE TLV(IF d = "payload_tag" THEN 4 ELSE 3,
                     <<IF d = "unused_bits" THEN 8 ELSE 0>> \o PubPayload(g))
        body == intPart \o innerSeq
                    \o (IF d = "no_payload" THEN <<>> ELSE payload)
                    \o (IF d = "outer_extra" THEN <<5, 0>> ELSE <<>>)
        outer == IF d = "outer_tag" THEN TLV(49, body)
                 ELSE IF d = "outer_primitive" THEN TLV(16, body)
                 ELSE IF d = "short_outer_len" THEN <<48, Len(body) - 1>> \o body
                 ELSE TLV(48, body)
        full == outer \o (IF d = "trailing" THEN <<0>> ELSE <<>>)
    IN IF d = "empty" THEN <<>>
       ELSE IF d = "truncated" THEN SubSeq(full, 1, Len(full) - 1)
       ELSE full

PrivPayloads ==
    [pl : {"seed"}, a : 0..MaxSeed, b : {0}]
        \cup [pl : {"armor"}, a : {0}, b : {0}]
        \cup [pl : {"innertag", "innerlen"}, a : {0}, b : {0}]
        \cup [pl : {"len"}, a : {0, 1, 2, 33, 35}, b : {0}]

PubPayloadsFew ==
    [pl : {"point"}, a : {0, 1, 2, 3}, b : {0}]
        \cup [pl : {"armor"}, a : {0}, b : {0}]
        \cup [pl : {"len"}, a : {0, 1, 31, 33}, b : {0}]

PubPoints == [pl : {"point"}, a : 0..127, b : {0, 1}]

DerShape(kind, oid, p, defect) ==
    [kind |-> kind, oid |-> oid, pl |-> p.pl, a |-> p.a, b |-> p.b, defect |-> defect]

DerShapes ==
    {DerShape("priv", o, p, d) : o \in OidNames, p \in PrivPayloads, d \in PrivDefects}
        \cup {DerShape("pub", o, p, d) : o \in OidNames, p \in PubPayloadsFew, d \in PubDefects}
        \cup {DerShape("pub", "ed25519", p, "none") : p \in PubPoints}

\* tags a PEM armor may carry: the two of lib.rs, one in lower case, another
OTHER_TAG == <<67, 69, 82, 84>>
LOWER_PUBLIC_TAG == <<112, 117, 98, 108, 105, 99, 32, 107, 101, 121>>
TagNames == {"PUBLIC KEY", "PRIVATE KEY", "public key", "CERT"}
TagBytes(name) ==
    IF name = "PUBLIC KEY" THEN PUBLIC_TAG
    ELSE IF name = "PRIVATE KEY" THEN PRIVATE_TAG
    ELSE IF name = "public key" THEN LOWER_PUBLIC_TAG
    ELSE OTHER_TAG

KindTag(kind) == IF kind = "priv" THEN "PRIVATE KEY" ELSE "PUBLIC KEY"

\* how a DER block reaches the parser: as it is, in a PEM armor, or in
\* something that is no armor (END tag differing, base64 broken, END missing)
Wraps == {"raw", "pem", "pem_mismatch", "pem_badb64", "pem_noend"}

Render(der, wrap, tag) ==
    LET t == TagBytes(tag)
        b64 == WrapLines(base64_encode(der))
    IN IF wrap = "raw" THEN der
       ELSE IF wrap = "pem" THEN pem_encode(t, der)
       ELSE IF wrap = "pem_mismatch"
            THEN BEGIN_MARK \o t \o DASHES \o CRLF \o b64 \o END_MARK \o OTHER_TAG \o DASHES \o CRLF
       ELSE IF wrap = "pem_badb64"
            THEN BEGIN_MARK \o t \o DASHES \o CRLF \o <<42>> \o b64 \o END_MARK \o t \o DASHES \o CRLF
       ELSE BEGIN_MARK \o t \o DASHES \o CRLF \o b64

SingleInput(shape, wrap, tag) ==
    [form |-> "single", shape |-> shape, wrap |-> wrap, tag |-> tag]

WholeKeys ==
    {g \in DerShapes : g.defect = "none" /\ g.oid = "ed25519"
                          /\ g.pl \in {"seed", "point"} /\ g.a <= 1 /\ g.b = 0}

SingleInputs ==
    {SingleInput(g, "raw", "PUBLIC KEY") : g \in DerShapes}
        \cup {SingleInput(g, "pem", KindTag(g.kind)) : g \in DerShapes}
        \cup {SingleInput(g, w, t) : g \in WholeKeys, w \in Wraps \ {"raw"}, t \in TagNames}

\* the records of a multi-record file
RecordKinds == {"key0", "key2", "wrongtag", "baddata", "badoid", "noarmor"}
RecordText(r) ==
    LET key(y) == DerBytes(DerShape("pub", "ed25519", [pl |-> "point", a |-> y, b |-> 0], "none"))
    IN IF r = "key0" THEN pem_encode(PUBLIC_TAG, key(0))
       ELSE IF r = "key2" THEN pem_encode(PUBLIC_TAG, key(6))
       ELSE IF r = "wrongtag" THEN pem_encode(PRIVATE_TAG, key(0))
       ELSE IF r = "baddata" THEN pem_encode(PUBLIC_TAG, <<48, 1>>)
       ELSE IF r = "badoid"
            THEN pem_encode(PUBLIC_TAG,
                     DerBytes(DerShape("pub", "x25519", [pl |-> "point", a |-> 0, b |-> 0], "none")))
       ELSE Render(key(0), "pem_mismatch", "PUBLIC KEY")

RECURSIVE ManyText(_)
ManyText(recs) ==
    IF Len(recs) = 0 THEN <<>> ELSE RecordText(Head(recs)) \o ManyText(Tail(recs))

RecordLists == UNION {[1..n -> RecordKinds] : n \in 0..MaxRecords}
ManyInputs == {[form |-> "many", recs |-> rs] : rs \in RecordLists}

InputBytes(g) ==
    IF g.form = "single" THEN Render(DerBytes(g.shape), g.wrap, g.tag)
    ELSE ManyText(g.recs)

\* ------------------------------------------------------------ state
VARIABLES
    pc,         \* "idle", "ready" (a buffer awaits a parser), "done"
    seed,       \* the bytes drawn by generate_keypair, <<>> before
    keypair,    \* Option<KeyPair> of the last generate_keypair
    gen,        \* what the buffer holds
    data,       \* the buffer
    op,         \* the parser last called
    out,        \* what it returned
    priv_key,   \* the last private-key parse of this key pair: [gen, op, out]
    pub_key     \* the last public-key parse of this key pair

vars == <<pc, seed, keypair, gen, data, op, out, priv_key, pub_key>>

NoInput == [form |-> "none"]
NoCall == [gen |-> NoInput, op |-> "", out |-> Err("")]

Init ==
    /\ pc = "idle"
    /\ seed = <<>>
    /\ keypair = None
    /\ gen = NoInput
    /\ data = <<>>
    /\ op = ""
    /\ out = Err("")
    /\ priv_key = NoCall
    /\ pub_key = NoCall

\* generate_keypair(&mut csprng)
GenerateKeypair ==
    /\ pc = "idle"
    /\ seed = <<>>
    /\ \E a \in 0..MaxSeed :
        /\ seed' = SeedBytes(a)
        /\ keypair' = generate_keypair(SeedBytes(a))
    /\ UNCHANGED <<pc, gen, data, op, out, priv_key, pub_key>>

\* a caller hands over a buffer of its own
Supply ==
    /\ pc = "idle"
    /\ seed = <<>>
    /\ \E g \in SingleInputs \cup ManyInputs :
        /\ gen' = g
        /\ data' = InputBytes(g)
    /\ pc' = "ready"
    /\ UNCHANGED <<seed, keypair, op, out, priv_key, pub_key>>

Export(what, bytes) ==
    /\ pc = "idle"
    /\ keypair.some
    /\ gen' = [form |-> "export", what |-> what]
    /\ data' = bytes
    /\ pc' = "ready"
    /\ UNCHANGED <<seed, keypair, op, out, priv_key, pub_key>>

\* &keypair.private_der, &keypair.public_der
TakePrivateDer == Export("private_der", keypair.val.private_der)
TakePublicDer == Export("public_der", keypair.val.public_der)
\* keypair.private_as_pem(), keypair.public_as_pem()
PrivateAsPem == Export("private_pem", private_as_pem(keypair.val))
PublicAsPem == Export("public_pem", public_as_pem(keypair.val))

CallPrivate(name, result) ==
    /\ pc = "ready"
    /\ op' = name
    /\ out' = result
    /\ priv_key' = IF keypair.some THEN [gen |-> gen, op |-> name, out |-> result]
                   ELSE priv_key
    /\ pc' = "done"
    /\ UNCHANGED <<seed, keypair, gen, data, pub_key>>

CallPublic(name, result) ==
    /\ pc = "ready"
    /\ op' = name
    /\ out' = result
    /\ pub_key' = IF keypair.some /\ name # "pubkeys_pem_many"
                  THEN [gen |-> gen, op |-> name, out |-> result]
                  ELSE pub_key
    /\ pc' = "done"
    /\ UNCHANGED <<seed, keypair, gen, data, priv_key>>

ParsePrivkeyDer == CallPrivate("privkey_der", parse_openssl_ed25519_privkey_der(data))
ParsePubkeyDer == CallPublic("pubkey_der", parse_openssl_ed25519_pubkey_der(data))
ParsePrivkey == CallPrivate("privkey", parse_openssl_ed25519_privkey(data))
ParsePubkey == CallPublic("pubkey", parse_openssl_ed25519_pubkey(data))
ParsePubkeysPemMany ==
    CallPublic("pubkeys_pem_many", parse_openssl_ed25519_pubkeys_pem_many(data))

\* the caller goes on with the same key pair
Continue ==
    /\ pc = "done"
    /\ keypair.some
    /\ pc' = "idle"
    /\ gen' = NoInput
    /\ data' = <<>>
    /\ op' = ""
    /\ out' = Err("")
    /\ UNCHANGED <<seed, keypair, priv_key, pub_key>>

\* the caller drops everything
Reset ==
    /\ pc = "done"
    /\ pc' = "idle"
    /\ seed' = <<>>
    /\ keypair' = None
    /\ gen' = NoInput
    /\ data' = <<>>
    /\ op' = ""
    /\ out' = Err("")
    /\ priv_key' = NoCall
    /\ pub_key' = NoCall

Next ==
    \/ GenerateKeypair
    \/ Supply
    \/ TakePrivateDer
    \/ TakePublicDer
    \/ PrivateAsPem
    \/ PublicAsPem
    \/ ParsePrivkeyDer
    \/ ParsePubkeyDer
    \/ ParsePrivkey
    \/ ParsePubkey
    \/ ParsePubkeysPemMany
    \/ Continue
    \/ Reset

Spec == Init /\ [][Next]_vars

\* ------------------------------------------------------------ properties
\* the raw DER block of a description went to the DER parser of its kind
DerCall ==
    /\ gen.form = "single"
    /\ gen.wrap = "raw"
    /\ \/ op = "privkey_der" /\ gen.shape.kind = "priv"
       \/ op = "pubkey_der" /\ gen.shape.kind = "pub"

\* y is the y-coordinate of a point of -x^2 + y^2 = 1 + d x^2 y^2
OnCurve(y) ==
    \E x \in 0..(FieldPrime - 1) :
        FSub(FSquare(y), FSquare(x)) = FAdd(1, FMul(EDWARDS_D, FMul(FSquare(x), FSquare(y))))

\* the payload a description writes is that of a key
PayloadGood(sh) ==
    IF sh.kind = "priv"
    THEN /\ Len(PrivPayload(sh)) = 34
         /\ PrivPayload(sh)[1] = 4
         /\ PrivPayload(sh)[2] = 32
    ELSE /\ Len(PubPayload(sh)) = 32
         /\ OnCurve(FieldElement_from_bytes(PubPayload(sh)))

\* a description of a whole key: nothing wrong, nothing added
WholeKey(sh) == sh.defect = "none" /\ sh.oid = "ed25519" /\ PayloadGood(sh)

FromExport(call, what) == call.gen.form = "export" /\ call.gen.what = what

\* C1: the keys generate_keypair exports parse back: private_der and
\* public_der both parse, and the public key derived from the parsed secret
\* is the parsed public key, byte for byte.
C1_RoundTrip ==
    (/\ keypair.some
     /\ priv_key.op = "privkey_der" /\ FromExport(priv_key, "private_der")
     /\ pub_key.op = "pubkey_der" /\ FromExport(pub_key, "public_der"))
    => /\ priv_key.out.ok
       /\ pub_key.out.ok
       /\ PublicKey_from_secret(priv_key.out.val) = pub_key.out.val

C1_Witness ==
    /\ keypair.some
    /\ priv_key.op = "privkey_der" /\ FromExport(priv_key, "private_der")
    /\ pub_key.op = "pubkey_der" /\ FromExport(pub_key, "public_der")
    /\ pub_key.out.ok
    /\ pub_key.out.val[1] > 1

\* C2: a key parses the same from its PEM rendering as from its DER block,
\* with the parser of its kind (PEM-or-DER entry points).
C2_PemDerEquivalence ==
    /\ (/\ gen.form = "single" /\ gen.wrap = "pem" /\ WholeKey(gen.shape)
        /\ op = "privkey" /\ gen.shape.kind = "priv" /\ gen.tag = "PRIVATE KEY")
       => out = parse_openssl_ed25519_privkey(DerBytes(gen.shape))
    /\ (/\ gen.form = "single" /\ gen.wrap = "pem" /\ WholeKey(gen.shape)
        /\ op = "pubkey" /\ gen.shape.kind = "pub" /\ gen.tag = "PUBLIC KEY")
       => out = parse_openssl_ed25519_pubkey(DerBytes(gen.shape))
    /\ (gen.form = "export" /\ gen.what = "private_pem" /\ op = "privkey")
       => out = parse_openssl_ed25519_privkey(keypair.val.private_der)
    /\ (gen.form = "export" /\ gen.what = "public_pem" /\ op = "pubkey")
       => out = parse_openssl_ed25519_pubkey(keypair.val.public_der)

\* C3: a DER parser fails with a structural error whenever bytes follow
\* the key structure: after the outer SEQUENCE, after the OID inside the
\* nested SEQUENCE, or after the payload inside the outer SEQUENCE.
C3_TrailingRejected ==
    (/\ DerCall
     /\ gen.shape.oid = "ed25519"
     /\ PayloadGood(gen.shape)
     /\ gen.shape.defect \in FollowingBytes)
    => ~out.ok /\ out.err \in StructuralErrors

\* C4: a well-formed block whose OID is not 1.3.101.112 is refused with
\* UnknownOid, whatever its payload.
C4_UnknownOid ==
    (DerCall /\ gen.shape.defect = "none" /\ gen.shape.oid # "ed25519")
    => out = Err("UnknownOid")

C4_Witness ==
    /\ DerCall
    /\ gen.shape.defect = "none"
    /\ gen.shape.oid # "ed25519"
    /\ ~PayloadGood(gen.shape)
    /\ out = Err("UnknownOid")

\* C5: a well-formed block with the Ed25519 OID parses exactly when its
\* payload is that of a key (34 bytes starting 04 20 for a private key, 32
\* bytes of a point of the curve for a public key), and is refused with
\* InvalidData otherwise.
C5_PayloadValidation ==
    (DerCall /\ gen.shape.defect = "none" /\ gen.shape.oid = "ed25519")
    => IF PayloadGood(gen.shape) THEN out.ok ELSE out = Err("InvalidData")

C5_Witness ==
    /\ DerCall
    /\ gen.shape.defect = "none"
    /\ gen.shape.oid = "ed25519"
    /\ gen.shape.kind = "priv"
    /\ gen.shape.pl = "innerlen"
    /\ out = Err("InvalidData")

\* C6: a PEM armor whose tag is not the one of the parser called is refused
\* with InvalidPEMTag, valid contents or not.
C6_PemTagMismatch ==
    (/\ gen.form = "single"
     /\ gen.wrap = "pem"
     /\ \/ op = "privkey" /\ gen.tag # "PRIVATE KEY"
        \/ op = "pubkey" /\ gen.tag # "PUBLIC KEY")
    => out = Err("InvalidPEMTag")

C6_Witness ==
    /\ gen.form = "single"
    /\ gen.wrap = "pem"
    /\ op = "pubkey"
    /\ gen.tag = "public key"
    /\ gen.shape.kind = "pub"
    /\ WholeKey(gen.shape)
    /\ out = Err("InvalidPEMTag")

\* the records of a file that are PEM records, in file order
IsRecord(r) == r # "noarmor"
Records == SelectSeq(gen.recs, IsRecord)

RecordContents(r) ==
    IF r = "key2"
    THEN DerBytes(DerShape("pub", "ed25519", [pl |-> "point", a |-> 6, b |-> 0], "none"))
    ELSE DerBytes(DerShape("pub", "ed25519", [pl |-> "point", a |-> 0, b |-> 0], "none"))

RecordError(r) ==
    IF r = "wrongtag" THEN "InvalidPEMTag"
    ELSE IF r = "baddata" THEN "NomError"
    ELSE "UnknownOid"

GoodRecord(r) == r \in {"key0", "key2"}
AllGood == \A i \in 1..Len(Records) : GoodRecord(Records[i])
FirstBad == FirstOf({i \in 1..Len(Records) : ~GoodRecord(Records[i])})

ManyCall == gen.form = "many" /\ op = "pubkeys_pem_many"

KeysInOrder ==
    /\ out.ok
    /\ Len(out.val) = Len(Records)
    /\ \A i \in 1..Len(Records) :
          out.val[i] = parse_openssl_ed25519_pubkey_der(RecordContents(Records[i])).val

\* C7 as stated: N valid "PUBLIC KEY" records give the N keys in file
\* order; any record of another tag gives InvalidPEMTag, and failing
\* contents give their DER error.
C7_AnyWrongTag ==
    ManyCall =>
        IF AllGood THEN KeysInOrder
        ELSE IF \E i \in 1..Len(Records) : Records[i] = "wrongtag"
             THEN out = Err("InvalidPEMTag")
        ELSE out = Err(RecordError(Records[FirstBad]))

\* C7, amended: N valid "PUBLIC KEY" records give the N keys in file order;
\* otherwise the call returns the error of the first record, in file order,
\* that has another tag (InvalidPEMTag) or contents that fail to parse
\* (their DER error), and no list.
C7_FirstError ==
    ManyCall =>
        IF AllGood THEN KeysInOrder
        ELSE out = Err(RecordError(Records[FirstBad]))

C7_Witness ==
    /\ ManyCall
    /\ Len(Records) = 2
    /\ Records[1] = "key2"
    /\ Records[2] = "wrongtag"
    /\ out = Err("InvalidPEMTag")

\* kp is what the layout prescribes for the seed whose public key is u
LaidOut(private, kp, u) ==
    IF kp.some
    THEN /\ Len(kp.val.private_der) = 48
         /\ kp.val.private_der
                = <<48, 46, 2, 1, 0, 48, 5, 6, 3, 43, 101, 112, 4, 34, 4, 32>> \o private
         /\ Len(kp.val.public_der) = 44
         /\ SubSeq(kp.val.public_der, 1, 12)
                = <<48, 42, 48, 5, 6, 3, 43, 101, 112, 3, 33, 0>>
         /\ kp.val.public_der[44] < 128
         /\ \A i \in 14..43 : kp.val.public_der[i] = 0
         /\ OnCurve(kp.val.public_der[13])
         /\ FMul(kp.val.public_der[13], FAdd(u[1], 1)) = FSub(u[1], 1)
    ELSE ~MontgomeryPoint_to_edwards(u, 0).some

\* C8: a generated KeyPair is laid out strictly: private_der is the 16-byte
\* prefix followed by the seed as drawn, public_der the 12-byte prefix
\* followed by the compressed Edwards point, sign bit 0, of the derived
\* public key; when the lift fails there is no KeyPair.  Stated on the step
\* that returns from generate_keypair.
C8_StrictLayout ==
    [][(seed = <<>> /\ seed' # <<>>) => LaidOut(seed', keypair', DerivedPublic(seed'))]_vars

C8_Witness ==
    /\ seed # <<>>
    /\ keypair.some
    /\ keypair.val.public_der[13] > 1
    /\ keypair.val.private_der[17] > 0

\* C9: no parser panics: every call returns a Result.
C9_NoPanic ==
    op # "" => out.err # "panic"

C9_Witness ==
    /\ DerCall
    /\ gen.shape.kind = "priv"
    /\ gen.shape.defect = "none"
    /\ gen.shape.oid = "ed25519"
    /\ gen.shape.pl = "len"
    /\ gen.shape.a = 1
    /\ out = Err("InvalidData")

\* the buffer holds nothing pem::parse accepts
NotPem ==
    /\ gen.form = "single"
    /\ \/ gen.wrap = "raw" /\ gen.shape.pl # "armor"
       \/ gen.wrap = "pem_mismatch" /\ TagBytes(gen.tag) # OTHER_TAG
       \/ gen.wrap \in {"pem_badb64", "pem_noend"}

\* C10: on an input that is no PEM envelope the PEM-or-DER parsers return
\* what the DER parser returns on the whole input, success or error.
C10_DerFallback ==
    /\ (NotPem /\ op = "pubkey") => out = parse_openssl_ed25519_pubkey_der(data)
    /\ (NotPem /\ op = "privkey") => out = parse_openssl_ed25519_privkey_der(data)

C10_Witness ==
    /\ NotPem
    /\ op = "pubkey"
    /\ gen.wrap = "raw"
    /\ out.ok

=============================================================================
